---- MODULE Spec2Model ----
(***************************************************************************)
(* The ThinkEx clusters API as a state machine.  The repository holds two  *)
(* implementations of the same operations:                                 *)
(*   "mem"  src/api/main.py: the in-memory store CLUSTER_LISTS guarded by  *)
(*          one threading.Lock;                                            *)
(*   "db"   src/api/routes/cluster_routes.py over                          *)
(*          src/api/database/service.py (SQLModel tables).                 *)
(* impl is chosen once, in Init; every formula is checked for both.        *)
(*                                                                         *)
(* Scheduling.  The async handlers all run on the one event-loop thread:   *)
(* a handler runs without interruption by another async handler until it   *)
(* awaits the channel's publish.  `loop` names the handler that occupies   *)
(* the loop thread between two steps of the model (0: the loop is free).   *)
(* The sync handlers (create_cluster_list) run on pool threads.            *)
(*                                                                         *)
(* Strings are sequences of one-character strings over Chars; strip() and  *)
(* lower() are computed.                                                   *)
(***************************************************************************)
EXTENDS Integers, Sequences, FiniteSets, TLC

\* ------------------------------------------------------------- bounds
\* Cards that are ever created (qa ids 1..MaxCards).
MaxCards == 2
\* Cluster lists that ever exist (list ids 1..MaxLists).
MaxLists == 2
\* Request handlers in flight at the same time.
NTasks == 2

Tasks == 1..NTasks
ListIds == 1..MaxLists
QaIds == 1..MaxCards

\* ------------------------------------------------------------ strings
\* str.strip(): drop leading and trailing whitespace.
RECURSIVE LStrip(_)
LStrip(s) == IF s # <<>> /\ Head(s) = " " THEN LStrip(Tail(s)) ELSE s

RECURSIVE RStrip(_)
RStrip(s) == IF s # <<>> /\ s[Len(s)] = " " THEN RStrip(SubSeq(s, 1, Len(s) - 1)) ELSE s

\* A strip that removes trailing spaces only.
StripRight(s) == RStrip(s)

Strip(s) == RStrip(LStrip(s))

\* str.lower() on one character.
LowerChar(c) == IF c = "A" THEN "a" ELSE c

Lower(s) == [i \in 1..Len(s) |-> LowerChar(s[i])]

\* Optional[str] = None
None == <<"None">>

\* A check for emptiness that forgets to trim.
IsBlankUntrimmed(s) == s = <<>>

\* `if not s.strip()`: the string is empty after trimming.
IsBlank(s) == Strip(s) = <<>>

\* A comparison of the field as it was sent, untrimmed, with the stored value.
ChangedUntrimmed(new, old) == new # None /\ ~IsBlank(new) /\ new # old

\* update_qa: the request carries this field and it is not empty after trimming.
Supplied(new) == new # None /\ ~IsBlank(new)

\* update_qa: `new is not None and new.strip() and new.strip() != old`.
Changed(new, old) == new # None /\ ~IsBlank(new) /\ Strip(new) # old

\* The request strings that are tried.  " A" is a case and whitespace variant
\* of "a"; "_" is a title that is also a LIKE wildcard; " " is empty after
\* trimming.
TitleInputs == {<<"a">>, <<" ", "A">>, <<"_">>, <<" ">>}
QuestionInputs == {<<"q">>, <<" ", "r">>, <<" ">>}
AnswerInputs == {<<"x">>, <<" ">>}
\* update_qa: a field may be absent.
QuestionUpdates == {<<" ", "r">>, <<" ">>, None}
AnswerUpdates == {<<"x">>, None}


\* -------------------------------------------------------------- state
VARIABLES
    impl,        \* "mem" (main.py) or "db" (routes + DatabaseService)
    qaOrder,     \* whether table qa_pairs has the column `order` of service.py
    memLists,    \* main.py CLUSTER_LISTS: list id -> sequence of clusters
    dbLists,     \* table cluster_lists: the list ids
    dbClusters,  \* table clusters: rows [id, title, cluster_list_id]
    dbQas,       \* table qa_pairs: rows [qa_id, question, answer, cluster_id, order]
    nextQa,      \* the next fresh card id (uuid4 never repeats)
    nextList,    \* the next fresh list id
    nextCluster, \* the next primary key of table clusters
    manager,     \* the AblyManager and the task that runs initialize_realtime
    lock,        \* main.py lock: 0 (free) or the task that holds it
    loop,        \* the task that occupies the event-loop thread, or 0
    tasks,       \* the request handlers in flight
    obs          \* what the last step showed a client or the dispatcher

vars == <<impl, qaOrder, memLists, dbLists, dbClusters, dbQas, nextQa, nextList,
          nextCluster, manager, lock, loop, tasks, obs>>

memVars == <<memLists, lock>>
dbVars == <<dbLists, dbClusters, dbQas, nextCluster>>

\* No event handed to the dispatcher.
NoEvent == [type |-> "none", action |-> "none", list |-> 0, committed |-> FALSE]

\* A handler slot with no request in it.  The fields of a running handler:
\*   pc        idle | s1 | blocked | add2 | publishing (in a slot); done (in obs)
\*   op, list  the operation and the list id it was invoked with
\*   title     the trimmed cluster title of the request
\*   qa, cid   the card and (db) the cluster row the handler works on
\*   created   the handler created a cluster
\*   committed the handler's mutation is in the store
\*   ev        the event handed to manager.broadcast
\*   pubs      calls of channel.publish made for this request
\*   pubres    how the publish ended: none | ok | raised
\*   res       the response: ok | noop | 400 | 404 | 500
\*   ids       the ordered_qa_ids of a reorder request
\*   view      the clusters a read returns, each as <<title, ids of its cards>>
\*   supplied  an update_qa request carries a field that is not empty after trimming
\*   blank     the request's cluster title is empty after trimming
\*   fields    <<question, answer>> as an update_qa request carries them
IdleTask ==
    [pc |-> "idle", op |-> "none", list |-> 0, title |-> <<>>, qa |-> 0, cid |-> 0,
     created |-> FALSE, committed |-> FALSE, ev |-> NoEvent, pubs |-> 0,
     pubres |-> "none", res |-> "none", ids |-> <<>>, view |-> {},
     supplied |-> FALSE, blank |-> FALSE, fields |-> <<>>]

\* The request of rec, answered by the handler's own step, named a list that
\* exists and a cluster title that is empty after trimming.
BlankTitle(rec) ==
    /\ rec.op # "none" /\ rec.title = <<>> /\ rec.pubres = "none"
    /\ rec.list \in (IF impl = "mem" THEN DOMAIN memLists ELSE dbLists)

\* The response is the one an update_qa or a delete_qa returns for the change
\* its own step (no publish in between) has made: it names the card.
Applied(rec, result) ==
    rec.op \in {"update", "delete_qa"} /\ result = "ok" /\ rec.pubres = "none"

\* raise HTTPException(status_code=...) / return <response>.  An error response
\* shows its status (and, by its detail, that a 400 is add_qa's or the
\* reorder's), and whether the request had a blank title.  A response shows
\* the card only of an add_qa (the cluster it returns) and the title only of
\* an add_qa and of a move (its message names the destination); of the
\* cluster row a handler worked on only an add_qa's and a reorder's stay on
\* record.
Respond(rec, result) ==
    IF result \in {"400", "404"}
    THEN [IdleTask EXCEPT !.pc = "done", !.res = result,
                          !.op = IF result = "400" /\ rec.op \in {"add", "reorder"}
                                 THEN rec.op ELSE "none",
                          !.blank = BlankTitle(rec)]
    ELSE [rec EXCEPT !.pc = "done", !.res = result,
                     !.blank = BlankTitle(rec),
                     !.cid = IF rec.op \in {"reorder", "add"} THEN @ ELSE 0,
                     !.title = IF rec.op \in {"add", "move"} THEN @ ELSE <<>>,
                     !.qa = IF rec.op = "add" \/ Applied(rec, result) THEN @ ELSE 0,
                     !.fields = IF Applied(rec, result) THEN @ ELSE <<>>]

\* What a handler keeps of rec in its slot.  A handler that has responded is
\* gone; a coroutine suspended in publish keeps the locals it uses when it
\* resumes (the event dict has been handed over).
Stored(rec) ==
    IF rec.pc = "done" THEN IdleTask
    ELSE IF rec.pc = "publishing"
    THEN [rec EXCEPT !.ev = NoEvent, !.ids = <<>>, !.supplied = FALSE,
                     !.fields = <<>>,
                     !.title = IF rec.op = "add" THEN @ ELSE <<>>,
                     !.qa = IF rec.op = "add" THEN @ ELSE 0]
    ELSE rec

\* What the step that leaves a handler as rec shows: the response it returns
\* or the event it hands to the dispatcher; nothing while it is under way.
Observed(rec) == IF rec.pc \in {"done", "publishing"} THEN rec ELSE IdleTask

\* A step of handler t that leaves it as rec.
Step(t, rec) ==
    /\ tasks' = [tasks EXCEPT ![t] = Stored(rec)]
    /\ obs' = Observed(rec)

\* The server gives a new request the first handler slot that is idle (the
\* slots only name the requests in flight).
Free(t) ==
    /\ tasks[t].pc = "idle"
    /\ \A u \in Tasks : u < t => tasks[u].pc # "idle"

\* The mutation has been applied to the store (db: session.commit()).
Commit(rec) == [rec EXCEPT !.committed = TRUE]

\* The message dict a handler builds for manager.broadcast.
Event(rec, type, action) ==
    [type |-> type, action |-> action, list |-> rec.list, committed |-> rec.committed]

\* The AblyManager once startup_event has run, with (key) or without an
\* ABLY_API_KEY.  Without a key initialize_realtime has returned at once;
\* with one it is waiting for the connection.
\*   channel   self.channel: "none" or "ready"
\*   event     self._connection_event: "none", "clear" or "set"
\*   realtime  the connection of the AblyRealtime client: "none", "open", "closed"
\*   task      the run of initialize_realtime (main.py: ably_task): "running",
\*             "waiting" (on the keep-alive event), "returned" or "cancelled"
\*   cancel    ably_task.cancel() has been called and not yet delivered
\*   down      shutdown_event (routes manager: close()): "no", "awaiting", "done"
Started(key) ==
    [key |-> key, channel |-> "none", event |-> "none", realtime |-> "none",
     task |-> IF key THEN "running" ELSE "returned", cancel |-> FALSE, down |-> "no"]

\* asyncio.Task.done()
TaskDone(m) == m.task \in {"returned", "cancelled"}

\* A manager that takes its channel for ready from the start.
IsReadyAlways == TRUE

\* AblyManager.is_ready (main.py: `if not self.channel`).
IsReady == manager.channel # "none"

\* AblyManager.broadcast up to its await: without a channel it returns at once,
\* otherwise the coroutine suspends in channel.publish.
Broadcast(rec, e) ==
    IF ~IsReady
    THEN [rec EXCEPT !.ev = e]
    ELSE [rec EXCEPT !.ev = e, !.pc = "publishing", !.pubs = @ + 1]

\* A broadcast without its try/except: a failed publish leaves it as an exception.
BroadcastPropagates(rec, outcome) ==
    [rec EXCEPT !.pubres = outcome,
                !.pc = IF outcome = "raised" THEN "raised" ELSE "resumed"]

\* AblyManager.broadcast after its await: the try/except swallows a failed
\* publish, so the coroutine returns normally either way.
BroadcastResumes(rec, outcome) == [rec EXCEPT !.pubres = outcome, !.pc = "resumed"]

\* The response of a handler whose `await manager.broadcast(...)` has ended as
\* r: an exception that left broadcast would leave the handler too (a 500);
\* after a normal return the handler goes on to its return statement.
AfterAwait(r, result) == IF r.pc = "raised" THEN "500" ELSE result

\* ------------------------------------------------------ main.py store
\* The key titles are compared by: trimmed, lower case.
Key(title) == Lower(Strip(title))

\* A lookup that compares the trimmed titles as they are, case and all.
FindClusterIdxExact(clusters, name) ==
    LET hits == {i \in 1..Len(clusters) : Strip(clusters[i].title) = Strip(name)}
    IN IF hits = {} THEN 0 ELSE CHOOSE i \in hits : \A j \in hits : i <= j

\* _find_cluster_idx_case_insensitive: the first index whose title matches, 0 for None.
FindClusterIdx(clusters, name) ==
    LET hits == {i \in 1..Len(clusters) :
                    Lower(Strip(clusters[i].title)) = Lower(Strip(name))}
    IN IF hits = {} THEN 0 ELSE CHOOSE i \in hits : \A j \in hits : i <= j

\* for i, qa in enumerate(cluster.qas): if qa.qa_id == qa_id: ... break
FindQaIdx(qas, qid) ==
    LET hits == {i \in 1..Len(qas) : qas[i].qa_id = qid}
    IN IF hits = {} THEN 0 ELSE CHOOSE i \in hits : \A j \in hits : i <= j

\* An id that counts the cards in store.
NewQaIdByCount ==
    IF impl = "db" THEN Cardinality(dbQas) + 1
    ELSE 1 + Cardinality(UNION {UNION {{memLists[L][i].qas[k].qa_id :
                                           k \in 1..Len(memLists[L][i].qas)} :
                                        i \in 1..Len(memLists[L])} : L \in DOMAIN memLists})

\* default_factory=lambda: str(uuid4()): an id no card has had before.
NewQaId == nextQa

\* A delete that drops the element and all that follow it.
DelFrom(seq, i) == SubSeq(seq, 1, i - 1)

\* del seq[i]
DelAt(seq, i) == SubSeq(seq, 1, i - 1) \o SubSeq(seq, i + 1, Len(seq))

Init ==
    /\ impl \in {"mem", "db"}
    /\ qaOrder \in IF impl = "db" THEN BOOLEAN ELSE {TRUE}
    /\ memLists = IF impl = "mem" THEN (1 :> <<>>) ELSE <<>>
    /\ dbLists = {}
    /\ dbClusters = {}
    /\ dbQas = {}
    /\ nextQa = 1
    /\ nextList = IF impl = "mem" THEN 2 ELSE 1
    /\ nextCluster = 1
    /\ manager = Started(TRUE)
    /\ lock = 0
    /\ loop = 0
    /\ tasks = [t \in Tasks |-> IdleTask]
    /\ obs = IdleTask

\* What a handler does once manager.broadcast has been called with e: without a
\* suspension it leaves the `with lock` block and returns result; suspended in
\* publish it keeps the lock (the await is inside the block).
MemAfterBroadcast(t, rec, e, result) ==
    LET r == Broadcast(rec, e)
    IN IF r.pc = "publishing"
       THEN /\ Step(t, r)
            /\ lock' = t
            /\ loop' = 0
       ELSE /\ Step(t, Respond(r, result))
            /\ lock' = 0
            /\ loop' = 0

\* The async handlers of main.py.
MemOps == {"add", "update", "delete_qa", "delete_cluster"}

\* An async handler of main.py (they start alike) from its start to the end of
\* its first `with lock` block, the lookup of the list.  With the lock held by
\* a coroutine suspended in publish, `with lock` blocks the event-loop thread.
MemBegin(t, op, L, title) ==
    /\ impl = "mem"
    /\ Free(t)
    /\ loop = 0
    /\ UNCHANGED <<impl, qaOrder, memLists, dbVars, nextQa, nextList, manager, lock>>
    /\ LET rec == [IdleTask EXCEPT !.op = op, !.list = L, !.title = Strip(title)]
       IN IF L = 0
          THEN /\ Step(t, Respond(rec, "400"))
               /\ loop' = 0
          ELSE IF lock # 0
          THEN /\ Step(t, [rec EXCEPT !.pc = "blocked"])
               /\ loop' = t
          ELSE IF L \notin DOMAIN memLists
          THEN /\ Step(t, Respond(rec, "404"))
               /\ loop' = 0
          ELSE /\ Step(t, [rec EXCEPT !.pc = "s1"])
               /\ loop' = t

\* The second `with lock` block of add_qa (main.py), after the validation of
\* the request: find the cluster or create it, append the card, broadcast.
MemAdd(t, q, a) ==
    /\ impl = "mem"
    /\ tasks[t].pc = "s1"
    /\ tasks[t].op = "add"
    /\ loop = t
    /\ UNCHANGED <<impl, qaOrder, dbVars, nextList, manager>>
    /\ LET rec == tasks[t]
           name == rec.title
           L == rec.list
       IN IF IsBlank(name) \/ IsBlank(q) \/ IsBlank(a)
          THEN /\ Step(t, Respond(rec, "400"))
               /\ loop' = 0
               /\ UNCHANGED <<memLists, lock, nextQa>>
          ELSE /\ nextQa <= MaxCards
               /\ lock = 0
               /\ LET idx == FindClusterIdx(memLists[L], name)
                      qa == [qa_id |-> NewQaId, question |-> Strip(q), answer |-> Strip(a)]
                  IN /\ nextQa' = nextQa + 1
                     /\ IF idx = 0
                        THEN /\ memLists' = [memLists EXCEPT ![L] =
                                                Append(@, [title |-> name, qas |-> <<qa>>])]
                             /\ LET r == Commit([rec EXCEPT !.qa = qa.qa_id, !.created = TRUE])
                                IN MemAfterBroadcast(t, r,
                                       Event(r, "knowledge_graph_update", "cluster_created"), "ok")
                        ELSE /\ memLists' = [memLists EXCEPT ![L][idx].qas = Append(@, qa)]
                             /\ LET r == Commit([rec EXCEPT !.qa = qa.qa_id])
                                IN MemAfterBroadcast(t, r,
                                       Event(r, "knowledge_graph_update", "qa_added"), "ok")

\* The second `with lock` block of update_qa (main.py).
MemUpdate(t, qid, q, a) ==
    /\ impl = "mem"
    /\ tasks[t].pc = "s1"
    /\ tasks[t].op = "update"
    /\ loop = t
    /\ UNCHANGED <<impl, qaOrder, dbVars, nextQa, nextList, manager>>
    /\ LET rec == [tasks[t] EXCEPT !.qa = qid, !.supplied = Supplied(q) \/ Supplied(a),
                                   !.fields = <<q, a>>]
           name == rec.title
           L == rec.list
       IN IF name = <<>> \/ (q = None /\ a = None)
          THEN /\ Step(t, Respond(rec, "400"))
               /\ loop' = 0
               /\ UNCHANGED <<memLists, lock>>
          ELSE /\ lock = 0
               /\ LET idx == FindClusterIdx(memLists[L], name)
                      qidx == IF idx = 0 THEN 0 ELSE FindQaIdx(memLists[L][idx].qas, qid)
                  IN IF idx = 0 \/ qidx = 0
                     THEN /\ Step(t, Respond(rec, "404"))
                          /\ loop' = 0
                          /\ UNCHANGED <<memLists, lock>>
                     ELSE LET old == memLists[L][idx].qas[qidx]
                              qch == Changed(q, old.question)
                              ach == Changed(a, old.answer)
                              new == [old EXCEPT !.question = IF qch THEN Strip(q) ELSE @,
                                                 !.answer = IF ach THEN Strip(a) ELSE @]
                          IN IF ~(qch \/ ach)
                             THEN /\ Step(t, Respond(rec, "noop"))
                                  /\ loop' = 0
                                  /\ UNCHANGED <<memLists, lock>>
                             ELSE /\ memLists' = [memLists EXCEPT ![L][idx].qas[qidx] = new]
                                  /\ LET r == Commit(rec)
                                     IN MemAfterBroadcast(t, r,
                                            Event(r, "knowledge_graph_update", "qa_updated"), "ok")

\* The second `with lock` block of delete_qa (main.py).
MemDeleteQa(t, qid) ==
    /\ impl = "mem"
    /\ tasks[t].pc = "s1"
    /\ tasks[t].op = "delete_qa"
    /\ loop = t
    /\ UNCHANGED <<impl, qaOrder, dbVars, nextQa, nextList, manager>>
    /\ LET rec == [tasks[t] EXCEPT !.qa = qid]
           name == rec.title
           L == rec.list
       IN IF name = <<>>
          THEN /\ Step(t, Respond(rec, "400"))
               /\ loop' = 0
               /\ UNCHANGED <<memLists, lock>>
          ELSE /\ lock = 0
               /\ LET idx == FindClusterIdx(memLists[L], name)
                      qidx == IF idx = 0 THEN 0 ELSE FindQaIdx(memLists[L][idx].qas, qid)
                  IN IF idx = 0 \/ qidx = 0
                     THEN /\ Step(t, Respond(rec, "404"))
                          /\ loop' = 0
                          /\ UNCHANGED <<memLists, lock>>
                     ELSE /\ memLists' = [memLists EXCEPT ![L][idx].qas = DelAt(@, qidx)]
                          /\ LET r == Commit(rec)
                             IN MemAfterBroadcast(t, r,
                                    Event(r, "knowledge_graph_update", "qa_deleted"), "ok")

\* The second `with lock` block of delete_cluster (main.py).
MemDeleteCluster(t) ==
    /\ impl = "mem"
    /\ tasks[t].pc = "s1"
    /\ tasks[t].op = "delete_cluster"
    /\ loop = t
    /\ UNCHANGED <<impl, qaOrder, dbVars, nextQa, nextList, manager>>
    /\ LET rec == tasks[t]
           name == rec.title
           L == rec.list
       IN IF name = <<>>
          THEN /\ Step(t, Respond(rec, "400"))
               /\ loop' = 0
               /\ UNCHANGED <<memLists, lock>>
          ELSE /\ lock = 0
               /\ LET idx == FindClusterIdx(memLists[L], name)
                  IN IF idx = 0
                     THEN /\ Step(t, Respond(rec, "404"))
                          /\ loop' = 0
                          /\ UNCHANGED <<memLists, lock>>
                     ELSE /\ memLists' = [memLists EXCEPT ![L] = DelAt(@, idx)]
                          /\ LET r == Commit(rec)
                             IN MemAfterBroadcast(t, r,
                                    Event(r, "knowledge_graph_update", "cluster_deleted"), "ok")

\* The publish a main.py handler awaits ends (acknowledged or raised): the
\* coroutine resumes on the event loop, leaves its `with lock` block and returns.
MemPublishDone(t, outcome) ==
    /\ impl = "mem"
    /\ tasks[t].pc = "publishing"
    /\ loop = 0
    /\ lock' = 0
    /\ LET r == BroadcastResumes(tasks[t], outcome)
       IN Step(t, Respond(r, AfterAwait(r, "ok")))
    /\ UNCHANGED <<impl, qaOrder, memLists, dbVars, nextQa, nextList, manager, loop>>

\* A create that starts a new dict holding only the new list.
MemCreateClusterListReplaces ==
    /\ impl = "mem"
    /\ lock = 0
    /\ nextList <= MaxLists
    /\ memLists' = (nextList :> <<>>)
    /\ nextList' = nextList + 1
    /\ obs' = [IdleTask EXCEPT !.pc = "done", !.op = "create_list", !.list = nextList,
                                !.res = "ok"]
    /\ UNCHANGED <<impl, qaOrder, dbVars, nextQa, manager, lock, loop, tasks>>

\* create_cluster_list (main.py), a sync handler on a pool thread: it waits for
\* the lock and adds an empty list under a fresh id.
MemCreateClusterList ==
    /\ impl = "mem"
    /\ lock = 0
    /\ nextList <= MaxLists
    /\ memLists' = memLists @@ (nextList :> <<>>)
    /\ nextList' = nextList + 1
    /\ obs' = [IdleTask EXCEPT !.pc = "done", !.op = "create_list", !.list = nextList,
                                !.res = "ok"]
    /\ UNCHANGED <<impl, qaOrder, dbVars, nextQa, manager, lock, loop, tasks>>

\* What a read of list L returns (main.py: the ClusterList object): its
\* clusters, each with the ids of its cards.
MemView(L) ==
    {<<memLists[L][i].title,
       {memLists[L][i].qas[k].qa_id : k \in 1..Len(memLists[L][i].qas)}>> :
        i \in 1..Len(memLists[L])}

\* get_cluster_list_by_id (main.py), a sync handler on a pool thread: it waits
\* for the lock and returns the list.
MemGetClusterListById(L) ==
    /\ impl = "mem"
    /\ lock = 0
    /\ obs' = IF L \in DOMAIN memLists
              THEN [IdleTask EXCEPT !.pc = "done", !.op = "read", !.list = L,
                                    !.res = "ok", !.view = MemView(L)]
              ELSE [IdleTask EXCEPT !.pc = "done", !.res = "404"]
    /\ UNCHANGED <<impl, qaOrder, memLists, dbVars, nextQa, nextList, manager, lock, loop, tasks>>

\* A connection that ends with the channel forgotten.
ClosedForgets(m) == [m EXCEPT !.realtime = "closed", !.channel = "none"]

\* The connection of m has been closed (AblyRealtime.close(), or the exit of
\* `async with AblyRealtime(...)`): self.channel is left as it is.
Closed(m) == [m EXCEPT !.realtime = IF @ = "open" THEN "closed" ELSE @]

\* initialize_realtime has seen "connected" and got the channel.  In main.py it
\* then creates the keep-alive event and waits on it; the routes manager's
\* returns.
Connect ==
    /\ manager.task = "running" /\ ~manager.cancel
    /\ manager' = [manager EXCEPT !.channel = "ready", !.realtime = "open",
                                   !.event = IF impl = "mem" THEN "clear" ELSE @,
                                   !.task = IF impl = "mem" THEN "waiting" ELSE "returned"]
    /\ obs' = IdleTask
    /\ UNCHANGED <<impl, qaOrder, memLists, dbVars, nextQa, nextList, lock, loop, tasks>>

\* initialize_realtime: an exception inside its try (the client cannot be
\* created, the connection attempt raises) is caught and the coroutine returns.
ConnectFails ==
    /\ manager.task = "running" /\ ~manager.cancel
    /\ manager' = [manager EXCEPT !.task = "returned"]
    /\ obs' = IdleTask
    /\ UNCHANGED <<impl, qaOrder, memLists, dbVars, nextQa, nextList, lock, loop, tasks>>

\* shutdown_event without the cancellation of the task.
ShutdownCloseOnly ==
    /\ impl = "mem"
    /\ manager.down = "no"
    /\ manager' = [manager EXCEPT !.event = IF @ = "none" THEN @ ELSE "set",
                                   !.down = "done"]
    /\ obs' = IdleTask
    /\ UNCHANGED <<impl, qaOrder, memLists, dbVars, nextQa, nextList, lock, loop, tasks>>

\* shutdown_event (main.py) up to `await ably_task`: close() sets the
\* keep-alive event if there is one and returns without suspending; a task
\* that is not done is cancelled and awaited.
Shutdown ==
    /\ impl = "mem"
    /\ manager.down = "no"
    /\ manager' = [manager EXCEPT !.event = IF @ = "none" THEN @ ELSE "set",
                                   !.cancel = ~TaskDone(manager),
                                   !.down = IF TaskDone(manager) THEN "done" ELSE "awaiting"]
    /\ obs' = IdleTask
    /\ UNCHANGED <<impl, qaOrder, memLists, dbVars, nextQa, nextList, lock, loop, tasks>>

\* The cancelled task runs: CancelledError is raised at its await (the wait for
\* "connected" or the wait on the event), `async with` closes the client, and
\* the task ends: cancelled where CancelledError is no Exception, returned
\* where `except Exception` catches it.
TaskCancelled(how) ==
    /\ manager.cancel
    /\ manager' = [Closed(manager) EXCEPT !.task = how, !.cancel = FALSE]
    /\ obs' = IdleTask
    /\ UNCHANGED <<impl, qaOrder, memLists, dbVars, nextQa, nextList, lock, loop, tasks>>

\* shutdown_event after `await ably_task`: the task is done.
ShutdownReturns ==
    /\ manager.down = "awaiting"
    /\ TaskDone(manager)
    /\ manager' = [manager EXCEPT !.down = "done"]
    /\ obs' = IdleTask
    /\ UNCHANGED <<impl, qaOrder, memLists, dbVars, nextQa, nextList, lock, loop, tasks>>

\* AblyManager.close of the routes manager: `if self.ably_realtime: await
\* self.ably_realtime.close()`.
AblyManagerClose ==
    /\ impl = "db"
    /\ manager.down = "no"
    /\ manager' = [Closed(manager) EXCEPT !.down = "done"]
    /\ obs' = IdleTask
    /\ UNCHANGED <<impl, qaOrder, memLists, dbVars, nextQa, nextList, lock, loop, tasks>>

\* The steps of the main.py handlers in the slots T.
NextMem(T) ==
    \/ \E t \in T, op \in MemOps, L \in ListIds, title \in TitleInputs :
          MemBegin(t, op, L, title)
    \/ \E t \in T, q \in QuestionInputs, a \in AnswerInputs : MemAdd(t, q, a)
    \/ \E t \in T, qid \in QaIds, q \in QuestionUpdates, a \in AnswerUpdates :
          MemUpdate(t, qid, q, a)
    \/ \E t \in T, qid \in QaIds : MemDeleteQa(t, qid)
    \/ \E t \in T : MemDeleteCluster(t)
    \/ \E t \in T, outcome \in {"ok", "raised"} : MemPublishDone(t, outcome)


\* ------------------------------------------- routes + DatabaseService
\* SQL LIKE, case-insensitive (ColumnOperators.ilike): in the pattern "%"
\* matches any run of characters and "_" any one character.
RECURSIVE ILike(_, _)
ILike(pattern, s) ==
    IF pattern = <<>> THEN s = <<>>
    ELSE IF Head(pattern) = "%"
    THEN ILike(Tail(pattern), s) \/ (s # <<>> /\ ILike(pattern, Tail(s)))
    ELSE /\ s # <<>>
         /\ (Head(pattern) = "_" \/ LowerChar(Head(pattern)) = LowerChar(Head(s)))
         /\ ILike(Tail(pattern), Tail(s))

\* DatabaseService.get_cluster_by_title: the rows the statement selects;
\* .first() returns one of them (the statement has no ORDER BY), None if empty.
GetClusterByTitle(L, title) ==
    {c \in dbClusters : c.cluster_list_id = L /\ ILike(Strip(title), c.title)}

\* DatabaseService.get_qa_pair_by_id: the rows with that qa_id (qa_id is unique).
GetQaPairById(qid) == {r \in dbQas : r.qa_id = qid}

\* ClusterDB.qas: the cards whose cluster_id is the cluster's id.
ClusterQas(cid) == {r \in dbQas : r.cluster_id = cid}

\* DatabaseService.create_qa_pair: the orders the new card can get.  The
\* statement selects the order of every card of the cluster and .first() takes
\* one of them; `or 0` turns None (no card) into 0; the card gets that + 1.
\* service.py reads and writes QAPairDB.order, database_models.py declares no
\* such field: qaOrder tells which of the two the table follows.
NewOrders(cid) ==
    IF ClusterQas(cid) = {} THEN {1} ELSE {r.order + 1 : r \in ClusterQas(cid)}

\* An update that stores the fields as they came.
UpdateQaPairUntrimmed(row, q, a) ==
    [row EXCEPT !.question = IF q # None /\ Strip(q) # <<>> THEN q ELSE @,
                !.answer = IF a # None /\ Strip(a) # <<>> THEN a ELSE @]

\* DatabaseService.update_qa_pair: a field that is given and not empty after
\* strip() is stored stripped.
UpdateQaPair(row, q, a) ==
    [row EXCEPT !.question = IF q # None /\ Strip(q) # <<>> THEN Strip(q) ELSE @,
                !.answer = IF a # None /\ Strip(a) # <<>> THEN Strip(a) ELSE @]

\* DatabaseService.delete_cluster: session.delete(cluster).  The relationship
\* ClusterDB.qas declares no delete cascade, so the unit of work sets the
\* cluster_id of the cluster's cards to NULL (0) and deletes the cluster row.
DeleteClusterRows(c) ==
    /\ dbClusters' = dbClusters \ {c}
    /\ dbQas' = {IF r.cluster_id = c.id THEN [r EXCEPT !.cluster_id = 0] ELSE r : r \in dbQas}

\* A routes handler after its commit: `if manager and manager.is_ready(): await
\* manager.broadcast(...)`, then the response.  Without a ready channel nothing
\* is handed to the manager and the handler returns at once.
DbAfterCommit(t, rec, result) ==
    /\ loop' = 0
    /\ IF IsReady
       THEN Step(t, Broadcast(rec, Event(rec, "cluster_list_update", "none")))
       ELSE Step(t, Respond(rec, result))

\* A handler start that does not wait for the event loop to be free (handlers
\* spread over threads).
DbBeginAnyThread(t, L) ==
    /\ impl = "db"
    /\ Free(t)
    /\ UNCHANGED <<impl, qaOrder, memVars, dbVars, nextQa, nextList, manager>>
    /\ LET rec == [IdleTask EXCEPT !.list = L]
       IN IF L \notin dbLists
          THEN /\ Step(t, Respond(rec, "404"))
               /\ loop' = 0
          ELSE /\ Step(t, [rec EXCEPT !.pc = "s1"])
               /\ loop' = t

\* A routes handler up to the lookup of its list (add_qa, update_qa,
\* reorder_qas_in_cluster, delete_qa, delete_cluster start with it; a
\* move_qa_to_cluster has tested its title before).  Which
\* of them it is shows in its next step.
DbBegin(t, L) ==
    /\ impl = "db"
    /\ Free(t)
    /\ loop = 0
    /\ UNCHANGED <<impl, qaOrder, memVars, dbVars, nextQa, nextList, manager>>
    /\ LET rec == [IdleTask EXCEPT !.list = L]
       IN IF L \notin dbLists
          THEN /\ Step(t, Respond(rec, "404"))
               /\ loop' = 0
          ELSE /\ Step(t, [rec EXCEPT !.pc = "s1"])
               /\ loop' = t

\* add_qa (routes) from the validation of the request to the commit of
\* create_cluster.
DbAddCluster(t, title, q, a) ==
    /\ impl = "db"
    /\ tasks[t].pc = "s1"
    /\ loop = t
    /\ UNCHANGED <<impl, qaOrder, memVars, dbLists, dbQas, nextQa, nextList, manager>>
    /\ LET name == Strip(title)
           rec == [tasks[t] EXCEPT !.op = "add", !.title = name]
           L == rec.list
       IN IF IsBlank(name) \/ IsBlank(q) \/ IsBlank(a)
          THEN /\ Step(t, Respond(rec, "400"))
               /\ loop' = 0
               /\ UNCHANGED <<dbClusters, nextCluster>>
          ELSE /\ nextQa <= MaxCards
               /\ loop' = t
               /\ IF GetClusterByTitle(L, name) = {}
                  THEN /\ nextCluster <= MaxCards
                       /\ dbClusters' = dbClusters \cup
                              {[id |-> nextCluster, title |-> name, cluster_list_id |-> L]}
                       /\ nextCluster' = nextCluster + 1
                       /\ Step(t, [rec EXCEPT !.pc = "add2", !.cid = nextCluster,
                                                       !.created = TRUE])
                  ELSE /\ \E c \in GetClusterByTitle(L, name) :
                             Step(t, [rec EXCEPT !.pc = "add2", !.cid = c.id])
                       /\ UNCHANGED <<dbClusters, nextCluster>>

\* add_qa (routes) from create_qa_pair on.  create_qa_pair starts with
\* select(QAPairDB.order): on a QAPairDB without that attribute the statement
\* raises before anything is added, the request ends with status 500 and the
\* cluster create_cluster has committed stays.
DbAddQa(t, q, a) ==
    /\ impl = "db"
    /\ tasks[t].pc = "add2"
    /\ loop = t
    /\ ~IsBlank(q) /\ ~IsBlank(a)
    /\ IF qaOrder
       THEN /\ \E o \in NewOrders(tasks[t].cid) :
                  dbQas' = dbQas \cup {[qa_id |-> NewQaId, question |-> Strip(q),
                                        answer |-> Strip(a),
                                        cluster_id |-> tasks[t].cid, order |-> o]}
            /\ nextQa' = nextQa + 1
            /\ DbAfterCommit(t, Commit([tasks[t] EXCEPT !.qa = NewQaId]), "ok")
       ELSE /\ Step(t, Respond(tasks[t], "500"))
            /\ loop' = 0
            /\ UNCHANGED <<dbQas, nextQa>>
    /\ UNCHANGED <<impl, qaOrder, memVars, dbLists, dbClusters, nextCluster, nextList, manager>>

\* update_qa (routes).
DbUpdate(t, title, qid, q, a) ==
    /\ impl = "db"
    /\ tasks[t].pc = "s1"
    /\ loop = t
    /\ UNCHANGED <<impl, qaOrder, memVars, dbLists, dbClusters, nextCluster, nextQa, nextList, manager>>
    /\ LET name == Strip(title)
           rec == [tasks[t] EXCEPT !.op = "update", !.title = name, !.qa = qid,
                                   !.supplied = Supplied(q) \/ Supplied(a),
                                   !.fields = <<q, a>>]
           L == rec.list
           fail(code) == /\ Step(t, Respond(rec, code))
                         /\ loop' = 0
                         /\ UNCHANGED dbQas
       IN IF name = <<>> \/ (q = None /\ a = None) THEN fail("400")
          ELSE IF GetClusterByTitle(L, name) = {} THEN fail("404")
          ELSE \E c \in GetClusterByTitle(L, name) :
                 IF \A r \in GetQaPairById(qid) : r.cluster_id # c.id
                 THEN fail("404")
                 ELSE \E row \in GetQaPairById(qid) :
                        LET qch == Changed(q, row.question)
                            ach == Changed(a, row.answer)
                        IN IF ~(qch \/ ach)
                           THEN /\ Step(t, Respond(rec, "noop"))
                                /\ loop' = 0
                                /\ UNCHANGED dbQas
                           ELSE /\ dbQas' = (dbQas \ {row}) \cup {UpdateQaPair(row, q, a)}
                                /\ DbAfterCommit(t, Commit([rec EXCEPT !.cid = c.id]), "ok")

\* A test of the card's cluster against the wrong key of the destination.
SameClusterWrongKey(row, dest) == row.cluster_id = dest.cluster_list_id

\* move_qa_to_cluster: `if qa_pair.cluster_id == dest_cluster.id`.
SameCluster(row, dest) == row.cluster_id = dest.id

\* move_qa_to_cluster up to its first test, which comes before the lookup of
\* the list: a new_cluster_title that is empty after trimming is refused.
DbMoveBlank(t, L, title) ==
    /\ impl = "db"
    /\ Free(t)
    /\ loop = 0
    /\ Strip(title) = <<>>
    /\ Step(t, Respond([IdleTask EXCEPT !.op = "move", !.list = L], "400"))
    /\ UNCHANGED <<impl, qaOrder, memVars, dbVars, nextQa, nextList, manager, loop>>

\* move_qa_to_cluster, whose title is not empty, after the lookup of its list:
\* the card is looked up by its id alone, the destination by its title in the
\* list; a card that is already there is left alone.
DbMove(t, qid, title) ==
    /\ impl = "db"
    /\ tasks[t].pc = "s1"
    /\ loop = t
    /\ Strip(title) # <<>>
    /\ UNCHANGED <<impl, qaOrder, memVars, dbLists, dbClusters, nextCluster, nextQa, nextList, manager>>
    /\ LET name == Strip(title)
           rec == [tasks[t] EXCEPT !.op = "move", !.title = name, !.qa = qid]
           L == rec.list
           fail(code) == /\ Step(t, Respond(rec, code))
                         /\ loop' = 0
                         /\ UNCHANGED dbQas
       IN IF GetQaPairById(qid) = {} THEN fail("404")
          ELSE IF GetClusterByTitle(L, name) = {} THEN fail("404")
          ELSE \E row \in GetQaPairById(qid), dest \in GetClusterByTitle(L, name) :
                 IF SameCluster(row, dest)
                 THEN /\ Step(t, Respond(rec, "noop"))
                      /\ loop' = 0
                      /\ UNCHANGED dbQas
                 ELSE /\ dbQas' = (dbQas \ {row}) \cup {[row EXCEPT !.cluster_id = dest.id]}
                      /\ DbAfterCommit(t, Commit([rec EXCEPT !.cid = dest.id]), "ok")

\* The ordered_qa_ids that are tried: every sequence of card ids up to MaxCards long.
OrderInputs == UNION {[1..n -> QaIds] : n \in 0..MaxCards}

\* set(request.ordered_qa_ids)
Range(seq) == {seq[i] : i \in 1..Len(seq)}

\* A check of the supplied ids as a set only.
MismatchedSetOnly(ids, qas) == Range(ids) # {r.qa_id : r \in qas}

\* reorder_qas_in_cluster: `len(ordered_qa_ids) != len(cluster.qas) or
\* set(ordered_qa_ids) != set(qa_map.keys())`.
Mismatched(ids, qas) ==
    Len(ids) # Cardinality(qas) \/ Range(ids) # {r.qa_id : r \in qas}

\* reorder_qas_in_cluster (routes): it validates the ids and broadcasts; it
\* assigns no position (it never calls DatabaseService.reorder_qa_pairs).
DbReorder(t, title, ids) ==
    /\ impl = "db"
    /\ tasks[t].pc = "s1"
    /\ loop = t
    /\ UNCHANGED <<impl, qaOrder, memVars, dbVars, nextQa, nextList, manager>>
    /\ LET rec == [tasks[t] EXCEPT !.op = "reorder", !.title = Strip(title)]
           L == rec.list
           fail(code) == /\ Step(t, Respond(rec, code))
                         /\ loop' = 0
       IN IF GetClusterByTitle(L, title) = {} THEN fail("404")
          ELSE \E c \in GetClusterByTitle(L, title) :
                 IF Mismatched(ids, ClusterQas(c.id))
                 THEN fail("400")
                 ELSE DbAfterCommit(t, [rec EXCEPT !.cid = c.id, !.ids = ids], "ok")

\* delete_qa (routes).
DbDeleteQa(t, title, qid) ==
    /\ impl = "db"
    /\ tasks[t].pc = "s1"
    /\ loop = t
    /\ UNCHANGED <<impl, qaOrder, memVars, dbLists, dbClusters, nextCluster, nextQa, nextList, manager>>
    /\ LET name == Strip(title)
           rec == [tasks[t] EXCEPT !.op = "delete_qa", !.title = name, !.qa = qid]
           L == rec.list
           fail(code) == /\ Step(t, Respond(rec, code))
                         /\ loop' = 0
                         /\ UNCHANGED dbQas
       IN IF name = <<>> THEN fail("400")
          ELSE IF GetClusterByTitle(L, name) = {} THEN fail("404")
          ELSE \E c \in GetClusterByTitle(L, name) :
                 IF \A r \in GetQaPairById(qid) : r.cluster_id # c.id
                 THEN fail("404")
                 ELSE \E row \in GetQaPairById(qid) :
                        /\ dbQas' = dbQas \ {row}
                        /\ DbAfterCommit(t, Commit([rec EXCEPT !.cid = c.id]), "ok")

\* delete_cluster (routes).
DbDeleteCluster(t, title) ==
    /\ impl = "db"
    /\ tasks[t].pc = "s1"
    /\ loop = t
    /\ UNCHANGED <<impl, qaOrder, memVars, dbLists, nextCluster, nextQa, nextList, manager>>
    /\ LET name == Strip(title)
           rec == [tasks[t] EXCEPT !.op = "delete_cluster", !.title = name]
           L == rec.list
           fail(code) == /\ Step(t, Respond(rec, code))
                         /\ loop' = 0
                         /\ UNCHANGED <<dbClusters, dbQas>>
       IN IF name = <<>> THEN fail("400")
          ELSE IF GetClusterByTitle(L, name) = {} THEN fail("404")
          ELSE \E c \in GetClusterByTitle(L, name) :
                 /\ DeleteClusterRows(c)
                 /\ DbAfterCommit(t, Commit([rec EXCEPT !.cid = c.id]), "ok")

\* What a routes handler returns once its broadcast has returned.  add_qa,
\* update_qa and delete_qa read their cluster object again (convert_to_api_cluster,
\* cluster.title): the commit expired it, so it is loaded anew, and if another
\* request deleted the row while the publish was awaited the load raises and the
\* response is a 500.  The other handlers use values they read before.
DbResponse(rec) ==
    IF rec.op \in {"add", "update", "delete_qa"} /\ \A c \in dbClusters : c.id # rec.cid
    THEN "500"
    ELSE "ok"

\* The publish a routes handler awaits ends (acknowledged or raised): the
\* coroutine resumes on the event loop and returns its response.
DbPublishDone(t, outcome) ==
    /\ impl = "db"
    /\ tasks[t].pc = "publishing"
    /\ loop = 0
    /\ LET r == BroadcastResumes(tasks[t], outcome)
       IN Step(t, Respond(r, AfterAwait(r, DbResponse(r))))
    /\ UNCHANGED <<impl, qaOrder, memVars, dbVars, nextQa, nextList, manager, loop>>

\* convert_to_api_cluster_list: the clusters of list L, each with the ids of
\* the cards of ClusterDB.qas.
DbView(L) ==
    {<<c.title, {r.qa_id : r \in ClusterQas(c.id)}>> :
        c \in {d \in dbClusters : d.cluster_list_id = L}}

\* get_cluster_list_by_id (routes), a sync handler on a pool thread with a
\* session of its own: it reads what has been committed.
DbGetClusterListById(L) ==
    /\ impl = "db"
    /\ obs' = IF L \in dbLists
              THEN [IdleTask EXCEPT !.pc = "done", !.op = "read", !.list = L,
                                    !.res = "ok", !.view = DbView(L)]
              ELSE [IdleTask EXCEPT !.pc = "done", !.res = "404"]
    /\ UNCHANGED <<impl, qaOrder, memVars, dbVars, nextQa, nextList, manager, loop, tasks>>

\* create_cluster_list (routes), a sync handler on a pool thread.
DbCreateClusterList ==
    /\ impl = "db"
    /\ nextList <= MaxLists
    /\ dbLists' = dbLists \cup {nextList}
    /\ nextList' = nextList + 1
    /\ obs' = [IdleTask EXCEPT !.pc = "done", !.op = "create_list", !.list = nextList,
                                !.res = "ok"]
    /\ UNCHANGED <<impl, qaOrder, memVars, dbClusters, dbQas, nextCluster, nextQa, manager, loop, tasks>>

\* The steps of the routes handlers in the slots T.
NextDb(T) ==
    \/ \E t \in T, L \in ListIds : DbBegin(t, L)
    \/ \E t \in T, title \in TitleInputs, q \in QuestionInputs, a \in AnswerInputs :
          DbAddCluster(t, title, q, a)
    \/ \E t \in T, q \in QuestionInputs, a \in AnswerInputs : DbAddQa(t, q, a)
    \/ \E t \in T, title \in TitleInputs, qid \in QaIds,
          q \in QuestionUpdates, a \in AnswerUpdates :
          DbUpdate(t, title, qid, q, a)
    \/ \E t \in T, L \in ListIds, title \in TitleInputs : DbMoveBlank(t, L, title)
    \/ \E t \in T, qid \in QaIds, title \in TitleInputs : DbMove(t, qid, title)
    \/ \E t \in T, title \in TitleInputs, ids \in OrderInputs : DbReorder(t, title, ids)
    \/ \E t \in T, title \in TitleInputs, qid \in QaIds : DbDeleteQa(t, title, qid)
    \/ \E t \in T, title \in TitleInputs : DbDeleteCluster(t, title)
    \/ \E t \in T, outcome \in {"ok", "raised"} : DbPublishDone(t, outcome)

\* The writers: NTasks mutating requests in flight on MaxLists lists.
Next ==
    \/ NextMem(Tasks)
    \/ NextDb(Tasks)
    \/ MemCreateClusterList
    \/ DbCreateClusterList
    \/ Connect

Spec == Init /\ [][Next]_vars

\* The readers: get_cluster_list_by_id on pool threads beside the mutating
\* requests, which come one at a time.
NextRead ==
    \/ NextMem({1})
    \/ NextDb({1})
    \/ MemCreateClusterList
    \/ DbCreateClusterList
    \/ \E L \in ListIds : MemGetClusterListById(L)
    \/ \E L \in ListIds : DbGetClusterListById(L)
    \/ Connect

SpecRead == Init /\ [][NextRead]_vars

\* The manager's life: the server starts with or without an API key, the
\* connection comes up or fails, and the server shuts down, beside requests
\* that come one at a time.
InitLife ==
    /\ impl \in {"mem", "db"}
    /\ qaOrder = TRUE
    /\ memLists = IF impl = "mem" THEN (1 :> <<>>) ELSE <<>>
    /\ dbLists = {}
    /\ dbClusters = {}
    /\ dbQas = {}
    /\ nextQa = 1
    /\ nextList = IF impl = "mem" THEN 2 ELSE 1
    /\ nextCluster = 1
    /\ manager \in {Started(key) : key \in BOOLEAN}
    /\ lock = 0
    /\ loop = 0
    /\ tasks = [t \in Tasks |-> IdleTask]
    /\ obs = IdleTask

NextLife ==
    \/ NextMem({1})
    \/ NextDb({1})
    \/ MemCreateClusterList
    \/ DbCreateClusterList
    \/ Connect
    \/ ConnectFails
    \/ Shutdown
    \/ \E how \in {"cancelled", "returned"} : TaskCancelled(how)
    \/ ShutdownReturns
    \/ AblyManagerClose

SpecLife == InitLife /\ [][NextLife]_vars

\* ---------------------------------------------------------- the views
\* The clusters that exist, each named by its list and its title.
ClusterKeys ==
    IF impl = "mem"
    THEN UNION {{<<L, memLists[L][i].title>> : i \in 1..Len(memLists[L])} :
                L \in DOMAIN memLists}
    ELSE {<<c.cluster_list_id, c.title>> : c \in dbClusters}

\* The ids of the cards that exist (db: what get_qa_pair_by_id finds).
CardIds ==
    IF impl = "mem"
    THEN UNION {UNION {{memLists[L][i].qas[k].qa_id : k \in 1..Len(memLists[L][i].qas)} :
                          i \in 1..Len(memLists[L])} : L \in DOMAIN memLists}
    ELSE {r.qa_id : r \in dbQas}

\* The clusters that hold card qid.
Holders(qid) ==
    IF impl = "mem"
    THEN UNION {{<<L, memLists[L][i].title>> :
                    i \in {j \in 1..Len(memLists[L]) : FindQaIdx(memLists[L][j].qas, qid) # 0}} :
                L \in DOMAIN memLists}
    ELSE {<<c.cluster_list_id, c.title>> :
             c \in {d \in dbClusters : \E r \in dbQas : r.qa_id = qid /\ r.cluster_id = d.id}}

\* Handler t is between the first read it validates with and its commit.
InWindow(t) == tasks[t].pc \in {"s1", "add2"}

\* The cards in their clusters with their ordering positions: in main.py a
\* card's position is its index in Cluster.qas, in the tables it is the
\* column `order`.  A cluster is named by its list and its index or row id.
Placed ==
    IF impl = "mem"
    THEN UNION {UNION {{[cl |-> <<L, i>>, qa |-> memLists[L][i].qas[k].qa_id, pos |-> k - 1] :
                            k \in 1..Len(memLists[L][i].qas)} :
                          i \in 1..Len(memLists[L])} : L \in DOMAIN memLists}
    ELSE {[cl |-> <<c.cluster_list_id, c.id>>, qa |-> r.qa_id, pos |-> r.order] :
             <<c, r>> \in {x \in dbClusters \X dbQas : x[2].cluster_id = x[1].id}}

\* The hierarchy: the lists, their clusters and the cards.
Store == <<memLists, dbLists, dbClusters, dbQas>>

\* o is what a handler's own step shows (its response, or the event it hands
\* over), not what its return after an awaited publish shows.
Acted(o) == o.pc \in {"done", "publishing"} /\ o.pubres = "none"

\* ---------------------------------------------------------- the claims
\* C1: no list ever holds two distinct clusters whose titles are equal when
\* trimmed and compared without regard to case.
C1_TitlesUnique ==
    /\ \A L \in DOMAIN memLists : \A i, j \in 1..Len(memLists[L]) :
          i # j => Key(memLists[L][i].title) # Key(memLists[L][j].title)
    /\ \A c, d \in dbClusters :
          (c # d /\ c.cluster_list_id = d.cluster_list_id) => Key(c.title) # Key(d.title)

\* C1 witness: an add whose title is a variant in case of a stored title has
\* put its card into that cluster and created none.
C1_Witness ==
    /\ obs.op = "add" /\ obs.committed /\ ~obs.created
    /\ \E k \in ClusterKeys :
          k[1] = obs.list /\ Key(k[2]) = Key(obs.title) /\ k[2] # obs.title

\* C2: of two adds of one new title that run together on one list both put
\* their card into the one cluster: the second is never stopped for good at
\* the lock the first holds while its publish is awaited.
C2_ConcurrentAddsBothLand ==
    \A t, u \in Tasks :
        ~ /\ tasks[t].op = "add" /\ tasks[t].pc = "publishing" /\ tasks[t].created
          /\ lock = t
          /\ tasks[u].op = "add" /\ tasks[u].pc = "blocked"
          /\ tasks[u].list = tasks[t].list
          /\ Key(tasks[u].title) = Key(tasks[t].title)

C4_PublishOutsideLock == \A t \in Tasks : tasks[t].pc = "publishing" => lock # t

\* C5: a request on a list is never kept waiting at the lock by a request on
\* another list.
C5_NoWaitAcrossLists ==
    \A t, u \in Tasks :
        (tasks[t].pc = "blocked" /\ tasks[t].list \in DOMAIN memLists /\ lock = u)
            => tasks[u].list = tasks[t].list

\* C6: when the publish a handler awaits ends, raised or not, the handler
\* returns the response it returns after a publish that succeeded, the store is
\* as its commit left it and no second publish is made; a handler that finds
\* no channel commits and returns success all the same.
C6_PublishFailureHarmless ==
    [][/\ \A t \in Tasks :
             (tasks[t].pc = "publishing" /\ tasks'[t] # tasks[t]) =>
                 /\ tasks'[t] = IdleTask
                 /\ obs'.pc = "done" /\ obs'.pubs = 1
                 /\ obs'.res = IF impl = "db" THEN DbResponse(tasks[t]) ELSE "ok"
                 /\ UNCHANGED <<memLists, dbLists, dbClusters, dbQas>>
       /\ (obs'.pc = "done" /\ obs'.committed /\ obs'.pubs = 0) => obs'.res = "ok"
      ]_vars

\* C6 witness: a handler whose publish raised has returned success for its
\* committed mutation.
C6_Witness ==
    obs.pc = "done" /\ obs.pubres = "raised" /\ obs.committed /\ obs.res = "ok"

C11_PublishOnlyOnChange ==
    [][/\ obs'.pc = "publishing" => (Store' # Store /\ obs'.committed)
       /\ obs'.pubs <= 1]_vars

\* C12: an update that leaves every value as it is answers "no changes
\* detected", changes nothing and calls no publish; an update that answers so
\* has changed nothing.
C12_UpdateNoOp ==
    [][(obs'.op = "update" /\ Acted(obs')) =>
          IF Store' = Store
          THEN /\ obs'.res = "noop" /\ obs'.pc = "done"
               /\ obs'.pubs = 0 /\ obs'.ev.type = "none"
          ELSE obs'.res = "ok" \/ obs'.pc = "publishing"]_vars

\* C12 witness: an update of a stored card has answered "no changes detected".
C12_Witness == obs.op = "update" /\ obs.res = "noop" /\ CardIds # {}

\* C13: a move whose destination is the cluster that holds the card answers
\* "no action taken", changes nothing, calls no publish and leaves no handler
\* under way, each time it is made; a move that answers so has changed nothing.
C13_MoveToSameClusterNoOp ==
    [][(obs'.op = "move" /\ Acted(obs')) =>
          IF Store' = Store
          THEN /\ obs'.res = "noop" /\ obs'.pc = "done"
               /\ obs'.pubs = 0 /\ obs'.ev.type = "none"
               /\ \A t \in Tasks : tasks'[t] # tasks[t] => tasks'[t] = IdleTask
          ELSE obs'.res = "ok" \/ obs'.pc = "publishing"]_vars

\* C13 witness: a move of a stored card has answered "no action taken".
C13_Witness ==
    /\ obs.op = "move" /\ obs.res = "noop"
    /\ \E qid \in CardIds : Holders(qid) # {}

\* ids lists every member of S once and nothing else.
IsPermutation(ids, S) ==
    /\ \A i \in 1..Len(ids) : ids[i] \in S
    /\ \A x \in S : Cardinality({i \in 1..Len(ids) : ids[i] = x}) = 1

\* C14: where a reorder is answered, the id sequences its check refuses are
\* exactly those that are not a permutation of the cluster's card ids, in
\* whatever order they come; a reorder that is accepted carries a
\* permutation, and one that is refused changes nothing.
C14_ReorderValidation ==
    [][/\ obs'.op = "reorder" =>
             \A c \in dbClusters : \A ids \in OrderInputs :
                 Mismatched(ids, ClusterQas(c.id)) <=>
                     ~IsPermutation(ids, {r.qa_id : r \in ClusterQas(c.id)})
       /\ (obs'.op = "reorder" /\ Acted(obs') /\ obs'.res # "400") =>
             IsPermutation(obs'.ids, {r.qa_id : r \in {x \in dbQas' : x.cluster_id = obs'.cid}})
       /\ (obs'.op = "reorder" /\ obs'.res = "400") =>
             (Store' = Store /\ obs'.ev.type = "none" /\ obs'.pubs = 0)]_vars

\* C14 witness: a reorder of a cluster of two cards has been refused.
C14_Witness ==
    /\ obs.op = "reorder" /\ obs.res = "400"
    /\ \E c \in dbClusters : Cardinality(ClusterQas(c.id)) = MaxCards

C18_NoPartialRead ==
    /\ obs.op = "read" =>
          \A t \in Tasks :
              (tasks[t].pc = "add2" /\ tasks[t].created /\ tasks[t].list = obs.list)
                  => \A v \in obs.view : v[1] # tasks[t].title
    /\ (obs.op = "add" /\ obs.res = "500" /\ obs.created /\ ~obs.committed)
          => <<obs.list, obs.title>> \notin ClusterKeys

\* C19: a lookup by title finds a cluster of the list exactly when a cluster of
\* the list has that title, both trimmed and compared as literal strings
\* without regard to case, and what it finds is such a cluster.
C19_LookupLiteral ==
    \A L \in ListIds : \A title \in TitleInputs :
        /\ L \in DOMAIN memLists =>
              LET idx == FindClusterIdx(memLists[L], title)
              IN IF idx = 0
                 THEN \A i \in 1..Len(memLists[L]) : Key(memLists[L][i].title) # Key(title)
                 ELSE Key(memLists[L][idx].title) = Key(title)
        /\ L \in dbLists =>
              /\ \A c \in GetClusterByTitle(L, title) :
                     c.cluster_list_id = L /\ Key(c.title) = Key(title)
              /\ GetClusterByTitle(L, title) = {} =>
                     \A c \in dbClusters :
                         c.cluster_list_id = L => Key(c.title) # Key(title)

\* C20: nothing an add stores is empty after trimming, a request answered with
\* a validation error has changed nothing and emitted nothing, and an add
\* that is not refused has stored its card under a title that is not empty.
C20_BlankAddRefused ==
    [][/\ \A k \in ClusterKeys' : Strip(k[2]) # <<>>
       /\ \A L \in DOMAIN memLists' : \A i \in 1..Len(memLists'[L]) :
             \A k \in 1..Len(memLists'[L][i].qas) :
                 /\ Strip(memLists'[L][i].qas[k].question) # <<>>
                 /\ Strip(memLists'[L][i].qas[k].answer) # <<>>
       /\ \A r \in dbQas' : Strip(r.question) # <<>> /\ Strip(r.answer) # <<>>
       /\ obs'.res = "400" =>
             (Store' = Store /\ obs'.ev.type = "none" /\ obs'.pubs = 0)
       /\ (obs'.op = "add" /\ Acted(obs') /\ obs'.res \notin {"400", "500"}) =>
             (obs'.committed /\ Store' # Store /\ Strip(obs'.title) # <<>>)]_vars

\* C20 witness: an add has been refused with a validation error while the
\* list already holds a cluster.
C20_Witness == obs.op = "add" /\ obs.res = "400" /\ ClusterKeys # {}

\* C21: an update whose own step answers with anything but an error carried a
\* question or an answer that is not empty after trimming: an update that
\* supplies neither is answered with a validation error, never as a no-op.
C21_UpdateNeedsField ==
    (obs.op = "update" /\ Acted(obs)) => obs.supplied

C23_BlankTitleIs400 ==
    (\/ obs.blank
     \/ obs.pc = "publishing" /\ Acted(obs) /\ obs.op # "none" /\ obs.title = <<>>)
        => obs.res = "400"

\* The number of clusters of list L.
ClusterCount(L) ==
    IF impl = "mem"
    THEN IF L \in DOMAIN memLists THEN Len(memLists[L]) ELSE 0
    ELSE Cardinality({c \in dbClusters : c.cluster_list_id = L})

C26_EventNamesMutation ==
    (obs.op \in {"update", "delete_qa", "delete_cluster"} /\ obs.ev.type # "none") =>
        /\ obs.ev.action = CASE obs.op = "update" -> "qa_updated"
                             [] obs.op = "delete_qa" -> "qa_deleted"
                             [] obs.op = "delete_cluster" -> "cluster_deleted"
        /\ obs.ev.list = obs.list

\* The ids of the lists that exist.
ExistingLists == IF impl = "mem" THEN DOMAIN memLists ELSE dbLists

\* C27: the step of create_cluster_list adds exactly one list, under an id no
\* list had, with no clusters; it leaves every list that existed, its
\* clusters and its cards as they were, and it hands no event to publish.
C27_CreateListFrame ==
    [][(obs'.op = "create_list" /\ obs' # obs) =>
          /\ obs'.list \notin ExistingLists
          /\ ExistingLists' = ExistingLists \cup {obs'.list}
          /\ impl = "mem" => memLists'[obs'.list] = <<>>
          /\ \A c \in dbClusters' : c.cluster_list_id # obs'.list
          /\ \A L \in DOMAIN memLists : memLists'[L] = memLists[L]
          /\ dbClusters' = dbClusters /\ dbQas' = dbQas
          /\ obs'.ev.type = "none" /\ obs'.pubs = 0
          /\ tasks' = tasks]_vars

\* C27 witness: a list has been created while another list holds a cluster.
C27_Witness ==
    obs.op = "create_list" /\ \E k \in ClusterKeys : k[1] # obs.list

\* C28: a step never removes or renames a list; every card that exists keeps
\* its id until a delete removes it (an update or a move leaves the set of
\* card ids as it is); and the id of a card or a list that a step creates is
\* one that no card or list has had before, deleted ones included.
C28_IdsNeverReused ==
    [][/\ ExistingLists \subseteq ExistingLists'
       /\ \A L \in ExistingLists' \ ExistingLists : L >= nextList
       /\ \A q \in CardIds' \ CardIds : q >= nextQa
       /\ Cardinality(CardIds' \ CardIds) <= 1
       /\ CardIds' \ CardIds # {} => (CardIds \subseteq CardIds' /\ nextQa' > nextQa)
       /\ CardIds \ CardIds' # {} =>
             /\ obs'.op \in {"delete_qa", "delete_cluster"} /\ Acted(obs')
             /\ CardIds' \subseteq CardIds
       /\ (obs'.op \in {"update", "move", "reorder"} /\ Acted(obs')) => CardIds' = CardIds]_vars

\* C28 witness: an add has created a card after an earlier card was deleted.
C28_Witness ==
    obs.op = "add" /\ Acted(obs) /\ obs.qa = 2 /\ CardIds = {2}

\* C29: no handler is suspended in its publish holding the lock while the
\* event-loop thread, which alone can resume it, is blocked acquiring that
\* lock for another handler.
C29_NoLockDeadlock ==
    \A t, u \in Tasks :
        ~ /\ tasks[t].pc = "publishing" /\ lock = t
          /\ tasks[u].pc = "blocked" /\ loop = u

\* The clusters of list M with their cards.
ListContent(M) ==
    IF impl = "mem"
    THEN IF M \in DOMAIN memLists THEN memLists[M] ELSE <<>>
    ELSE {<<c, {r \in dbQas : r.cluster_id = c.id}>> :
             c \in {d \in dbClusters : d.cluster_list_id = M}}

Contents ==
    IF impl = "mem"
    THEN UNION {UNION {{[qa |-> memLists[L][i].qas[k].qa_id,
                         question |-> memLists[L][i].qas[k].question,
                         answer |-> memLists[L][i].qas[k].answer] :
                            k \in 1..Len(memLists[L][i].qas)} :
                          i \in 1..Len(memLists[L])} : L \in DOMAIN memLists}
    ELSE {[qa |-> r.qa_id, question |-> r.question, answer |-> r.answer] : r \in dbQas}

\* C31: the step of an update that is applied changes the targeted card and
\* nothing else: each of its two fields becomes the supplied value, trimmed,
\* when that value is not empty after trimming and differs from the stored
\* one, and keeps its value otherwise; the ids, positions and clusters of all
\* cards, the clusters and all other cards stay as they were.
C31_UpdateFrame ==
    [][obs'.fields # <<>> =>
          /\ obs'.op = "update" /\ Acted(obs')
          /\ Placed' = Placed
          /\ ClusterKeys' = ClusterKeys
          /\ ExistingLists' = ExistingLists
          /\ \E old \in Contents :
                LET q == obs'.fields[1]
                    a == obs'.fields[2]
                    new == [old EXCEPT
                              !.question = IF q # None /\ Strip(q) # <<>> /\ Strip(q) # @
                                           THEN Strip(q) ELSE @,
                              !.answer = IF a # None /\ Strip(a) # <<>> /\ Strip(a) # @
                                         THEN Strip(a) ELSE @]
                IN /\ old.qa = obs'.qa
                   /\ new # old
                   /\ Contents' = (Contents \ {old}) \cup {new}]_vars

\* C31 witness: an update that carried an untrimmed question and the stored
\* answer has been applied while a second card exists.
C31_Witness ==
    /\ obs.op = "update" /\ Acted(obs)
    /\ obs.fields = << <<" ", "r">>, <<"x">> >>
    /\ Cardinality(CardIds) = 2

\* The cards in their clusters (a cluster named as in Placed).
Members == {<<p.cl, p.qa>> : p \in Placed}

\* C32: the step of a delete of a card that is applied removes that card and
\* nothing else: every other card keeps its content and its cluster, and the
\* clusters of every list, the card's own included, stay in their lists.
C32_DeleteQaFrame ==
    [][(obs'.op = "delete_qa" /\ Acted(obs')) =>
          /\ \E old \in Contents : old.qa = obs'.qa /\ Contents' = Contents \ {old}
          /\ Members' = {m \in Members : m[2] # obs'.qa}
          /\ \E m \in Members : m[2] = obs'.qa
          /\ ClusterKeys' = ClusterKeys
          /\ dbClusters' = dbClusters
          /\ \A L \in ListIds : ClusterCount(L)' = ClusterCount(L)
          /\ ExistingLists' = ExistingLists]_vars

\* C32 witness: a delete has removed the last card of a cluster, which is
\* still in its list.
C32_Witness ==
    /\ obs.op = "delete_qa" /\ Acted(obs)
    /\ CardIds = {} /\ \E k \in ClusterKeys : k[1] = obs.list

\* s is not empty and has no space at either end.
IsTrimmed(s) == s # <<>> /\ Head(s) # " " /\ s[Len(s)] # " "

\* C33: in every reachable state the title of every cluster and the question
\* and the answer of every card are non-empty and have no leading or trailing
\* whitespace.
C33_StoredTrimmed ==
    /\ \A k \in ClusterKeys : IsTrimmed(k[2])
    /\ \A c \in Contents : IsTrimmed(c.question) /\ IsTrimmed(c.answer)

\* C33 witness: a cluster and a card are stored whose title and question
\* arrived with leading whitespace.
C33_Witness ==
    /\ \E k \in ClusterKeys : k[2] = <<"A">>
    /\ \E c \in Contents : c.question = <<"r">>

\* C34: a publish starts only in the step of the handler that issues it, and
\* only with the channel ready; a step that changes the store while there is
\* no channel starts no publish and leaves no event behind in any handler, and
\* the request it completes succeeds.  No handler ever keeps an event.
C34_NoLatePublish ==
    [][/\ (\E t \in Tasks : tasks'[t].pc = "publishing" /\ tasks[t].pc # "publishing") =>
             (manager.channel # "none" /\ obs'.pc = "publishing" /\ Acted(obs'))
       /\ \A t \in Tasks : tasks'[t].ev = NoEvent
       /\ (manager.channel = "none" /\ Store' # Store) =>
             /\ \A t \in Tasks : tasks'[t].pc # "publishing"
             /\ obs'.pubs = 0
             /\ obs'.pc = "done" => obs'.res = "ok"]_vars

\* C34 witness: an add has committed and succeeded while there was no channel.
C34_Witness ==
    /\ manager.channel = "none"
    /\ obs.op = "add" /\ obs.pc = "done" /\ obs.res = "ok" /\ obs.committed /\ obs.pubs = 0

\* C35: once shutdown_event of main.py has completed, the task that runs
\* initialize_realtime is done and no cancellation is pending, whether the
\* task was waiting on the keep-alive event, was still connecting, or had
\* returned before.
C35_ShutdownEndsTask ==
    (impl = "mem" /\ manager.down = "done") => (TaskDone(manager) /\ ~manager.cancel)

\* C35 witness: shutdown has completed after the connection was established:
\* the event is set and the task, which was waiting on it, is done.
C35_Witness ==
    /\ impl = "mem" /\ manager.down = "done"
    /\ manager.channel = "ready" /\ manager.event = "set" /\ TaskDone(manager)

\* convert_to_api_cluster_list: the clusters of the routes' list L as the
\* ClusterList main.py works on holds them, in the order of their rows.
AsMemory(L) ==
    LET rows == {c \in dbClusters : c.cluster_list_id = L}
        n == Cardinality(rows)
    IN CHOOSE s \in [1..n -> rows] : \A i, j \in 1..n : i < j => s[i].id < s[j].id

\* C36: the routes' add_qa resolves its cluster as main.py's add_qa does on
\* the corresponding list: it creates a cluster exactly when main.py's lookup
\* finds none there, otherwise it takes the cluster that lookup finds, and
\* the titles of the list afterwards are the ones main.py's list would hold.
C36_RoutesAddAsInMemory ==
    [][\A t \in Tasks :
          (impl = "db" /\ tasks[t].pc = "s1" /\ tasks'[t].pc = "add2") =>
             LET L == tasks[t].list
                 clusters == AsMemory(L)
                 idx == FindClusterIdx(clusters, tasks'[t].title)
                 titles == {clusters[i].title : i \in 1..Len(clusters)}
             IN /\ tasks'[t].created <=> idx = 0
                /\ idx # 0 => tasks'[t].cid = clusters[idx].id
                /\ {c.title : c \in {d \in dbClusters' : d.cluster_list_id = L}}
                      = IF idx = 0 THEN titles \cup {tasks'[t].title} ELSE titles]_vars

\* C37: is_ready() becomes true only when initialize_realtime, run with an API
\* key, has seen the connection come up and got the channel; without a key it
\* is never true; once true it stays true, also across close(); so a handler
\* that commits while is_ready() holds hands its event to channel.publish even
\* after close(), and a publish that raises leaves the response as it is.
C37_ReadyOnceConnected ==
    [][/\ (~IsReady /\ IsReady') =>
             (manager.key /\ manager.task = "running" /\ manager'.realtime = "open")
       /\ ~manager.key => ~IsReady'
       /\ IsReady => IsReady'
       /\ (IsReady /\ Acted(obs') /\ obs'.committed) =>
             (obs'.pc = "publishing" /\ obs'.pubs = 1)
       /\ (obs'.pc = "done" /\ obs'.pubres = "raised") => obs'.res = "ok"]_vars

\* C37 witness: the routes manager has been closed after it had connected, and
\* a handler that committed afterwards has handed its event to channel.publish.
C37_Witness ==
    /\ impl = "db" /\ manager.down = "done" /\ manager.realtime = "closed"
    /\ IsReady
    /\ obs.pc = "publishing" /\ Acted(obs) /\ obs.committed /\ obs.pubs = 1


====
